---- MODULE Spec2Model ----
(***************************************************************************)
(* Model of temba/api/v2/fields.py: the API v2 serializer fields that      *)
(* turn wire tokens (UUIDs, contact field keys, URNs) into org-scoped      *)
(* model objects and render them back.                                     *)
(*                                                                         *)
(* One field operation runs per behaviour: Init draws the request context, *)
(* the database content and the inbound value (data) or the outbound       *)
(* object (obj); each action is one public operation of one field class    *)
(* and leaves its outcome in result and the per-item work it did in trace. *)
(***************************************************************************)
EXTENDS Integers, Sequences, FiniteSets, TLC

VARIABLES
    context,   \* serializer context: [org |-> [id, is_anon]]
    storage,   \* database rows, storage[pk] is the row with primary key pk
    urnlib,    \* behaviour of URN.normalize / URN.validate (temba.contacts.models)
    field,     \* the field class under use
    data,      \* inbound (posted) value
    obj,       \* outbound value handed to to_representation
    strict,    \* the strict argument of the last validate_urn call
    many,      \* whether the field was built with many=True (many_init)
    op,        \* "idle" before the operation, afterwards the operation that ran
    result,    \* outcome of the operation: a returned value or a raised error
    trace      \* items handed to a per-item handler (lookup / normalization), in order

vars == <<context, storage, urnlib, field, many, data, obj, strict, op, result, trace>>

----------------------------------------------------------------------------
(* Bounds of the model *)

MaxRecords == 2      \* rows in the database
MaxShortLen == 3     \* short posted lists: every sequence up to this length
MaxOver == 1         \* long posted lists: lengths up to MAX_LIST_SIZE + MaxOver

----------------------------------------------------------------------------
(* Python values *)

None == [type |-> "NoneType"]
empty == [type |-> "empty"]                 \* rest_framework.fields.empty
PyStr(s) == [type |-> "str", s |-> s]
PyList(items) == [type |-> "list", items |-> items]
PyInt(n) == [type |-> "int", n |-> n]
PyObject(u) == [type |-> "object", unicode |-> u]   \* instance whose __unicode__ is u

hasattr_len(value) == value.type \in {"list", "str"}

len(value) == IF value.type = "list" THEN Len(value.items) ELSE Len(value.s)

Digit(d) == CASE d = 0 -> "0" [] d = 1 -> "1" [] d = 2 -> "2" [] d = 3 -> "3"
              [] d = 4 -> "4" [] d = 5 -> "5" [] d = 6 -> "6" [] d = 7 -> "7"
              [] d = 8 -> "8" [] d = 9 -> "9"

RECURSIVE FormatInt(_)
\* "%d" % n for n >= 0
FormatInt(n) == IF n < 10 THEN Digit(n) ELSE FormatInt(n \div 10) \o Digit(n % 10)

\* six.text_type(obj)
text_type(value) == IF value.type = "str" THEN value ELSE PyStr(value.unicode)

(* Outcomes of a call *)
Return(v) == [raised |-> FALSE, value |-> v]
Raise(e) == [raised |-> TRUE, error |-> e]
ValidationError(detail) == [exception |-> "ValidationError", detail |-> detail]
Pending == [raised |-> FALSE, value |-> [type |-> "pending"]]

----------------------------------------------------------------------------
(* Lines 13-30: module-level validators *)

MAX_LIST_SIZE == 100

validate_list_size_exclusive(value) ==
    IF hasattr_len(value) /\ len(value) > MAX_LIST_SIZE
    THEN Raise(ValidationError("Exceeds maximum list size of " \o FormatInt(MAX_LIST_SIZE)))
    ELSE Return(None)

validate_list_size(value) ==
    IF hasattr_len(value) /\ len(value) >= MAX_LIST_SIZE
    THEN Raise(ValidationError("Exceeds maximum list size of " \o FormatInt(MAX_LIST_SIZE)))
    ELSE Return(None)

ValueError == "ValueError"

\* URN.normalize(value): the normalized URN, or ValueError
URN_normalize(lib, value) == lib.normalize[value]

\* URN.validate(normalized)
URN_validate(lib, normalized) == lib.validate[normalized]

InvalidURN(value) ==
    ValidationError("Invalid URN: " \o value \o ". Ensure phone numbers contain country codes.")

validate_urn_lenient(lib, value, strict_) ==
    LET normalized == URN_normalize(lib, value)
    IN  IF normalized = ValueError
        THEN Raise(InvalidURN(value))
        ELSE Return(PyStr(normalized))

validate_urn(lib, value, strict_) ==
    LET normalized == URN_normalize(lib, value)
    IN  IF normalized = ValueError
        THEN Raise(InvalidURN(value))
        ELSE IF strict_ /\ ~URN_validate(lib, normalized)
             THEN Raise(InvalidURN(value))
             ELSE Return(PyStr(normalized))

----------------------------------------------------------------------------
(* Lines 60-62, 97-142: the TembaModelField subclasses and their class attributes *)

FieldClasses ==
    {"CampaignField", "CampaignEventField", "ChannelField", "ContactField",
     "ContactGroupField", "FlowField", "LabelField"}

\* cls.model
model(cls) ==
    CASE cls = "CampaignField" -> "Campaign"
      [] cls = "CampaignEventField" -> "CampaignEvent"
      [] cls = "ChannelField" -> "Channel"
      [] cls = "ContactField" -> "Contact"
      [] cls = "ContactGroupField" -> "ContactGroup"
      [] cls = "FlowField" -> "Flow"
      [] cls = "LabelField" -> "Label"

\* cls.model_manager
model_manager(cls) ==
    CASE cls = "ContactGroupField" -> "user_groups"
      [] cls = "LabelField" -> "label_objects"
      [] OTHER -> "objects"

(* Querysets are sets of rows; a row lists the managers of its model whose *)
(* collection holds it.                                                    *)
Rows(db) == {db[pk] : pk \in DOMAIN db}

\* getattr(model, manager)
Manager(db, model_, manager) ==
    {r \in Rows(db) : r.model = model_ /\ manager \in r.managers}

\* QuerySet.first(): the row with the lowest primary key, or None
first(queryset) ==
    IF queryset = {} THEN None
    ELSE CHOOSE r \in queryset : \A s \in queryset : r.pk <= s.pk

----------------------------------------------------------------------------
(* Lines 81-94, 104-105: TembaModelField, CampaignEventField *)

TembaModelField_get_queryset(cls, ctx, db) ==
    {r \in Manager(db, model(cls), model_manager(cls)) :
        r.org = ctx.org.id /\ r.is_active}

CampaignEventField_get_queryset_unscoped(cls, ctx, db) ==
    {r \in Manager(db, model(cls), "objects") : r.is_active}

CampaignEventField_get_queryset(cls, ctx, db) ==
    {r \in Manager(db, model(cls), "objects") :
        r.campaign.org = ctx.org.id /\ r.is_active}

\* self.get_queryset(): CampaignEventField overrides the inherited method
get_queryset(cls, ctx, db) ==
    IF cls = "CampaignEventField"
    THEN CampaignEventField_get_queryset(cls, ctx, db)
    ELSE TembaModelField_get_queryset(cls, ctx, db)

TembaModelField_to_representation(o) == [uuid |-> o.uuid, name |-> o.name]

NoSuchObject(token) == ValidationError("No such object with UUID: " \o token)

TembaModelField_to_internal_value_any_org(cls, token, ctx, db) ==
    LET o == first({r \in Manager(db, model(cls), model_manager(cls)) :
                       r.is_active /\ r.uuid = token})
    IN  IF o = None THEN Raise(NoSuchObject(token)) ELSE Return(o)

TembaModelField_to_internal_value(cls, token, ctx, db) ==
    LET o == first({r \in get_queryset(cls, ctx, db) : r.uuid = token})
    IN  IF o = None THEN Raise(NoSuchObject(token)) ELSE Return(o)

----------------------------------------------------------------------------
(* Lines 116-129: ContactFieldField *)

ContactFieldField_to_representation(o) == [key |-> o.key, label |-> o.label]

NoSuchField(key) == ValidationError("No such contact field with key: " \o key)

ContactFieldField_to_internal_value_by_uuid(token, ctx, db) ==
    LET o == first({r \in Manager(db, "ContactFieldModel", "objects") :
                       r.org = ctx.org.id /\ r.uuid = token /\ r.is_active})
    IN  IF o = None THEN Raise(NoSuchField(token)) ELSE Return(o)

ContactFieldField_to_internal_value(token, ctx, db) ==
    LET o == first({r \in Manager(db, "ContactFieldModel", "objects") :
                       r.org = ctx.org.id /\ r.key = token /\ r.is_active})
    IN  IF o = None THEN Raise(NoSuchField(token)) ELSE Return(o)

----------------------------------------------------------------------------
(* Lines 43-53: URNField *)

URNField_to_representation_leaky(value, ctx) == Return(text_type(value))

URNField_to_representation(value, ctx) ==
    IF ctx.org.is_anon THEN Return(None) ELSE Return(text_type(value))

URNField_to_internal_value(lib, value) == validate_urn(lib, value, TRUE)

----------------------------------------------------------------------------
(* Lines 64-79: TembaModelField.many_init and LimitedSizeList.  The base   *)
(* class behaviour reached through super() is rest_framework's             *)
(* ManyRelatedField with its default options (required, not nullable,      *)
(* allow_empty).                                                           *)
(* A list operation yields [outcome, trace].                               *)

\* [self.child_relation.to_internal_value(item) for item in data]: the items are
\* handled left to right and the first one that raises ends the comprehension
many_related_items(cls, items, ctx, db) ==
    LET out == [i \in 1..Len(items) |->
                   TembaModelField_to_internal_value(cls, items[i], ctx, db)]
        raising == {i \in 1..Len(items) : out[i].raised}
        stop == CHOOSE i \in raising : \A j \in raising : i <= j
    IN  IF raising = {}
        THEN [outcome |-> Return(PyList([i \in 1..Len(items) |-> out[i].value])),
              trace |-> items]
        ELSE [outcome |-> out[stop], trace |-> SubSeq(items, 1, stop)]

many_related_items_skipping(cls, items, ctx, db) ==
    LET out == [i \in 1..Len(items) |->
                   TembaModelField_to_internal_value(cls, items[i], ctx, db)]
    IN  [outcome |-> Return(PyList(SelectSeq(
                        [i \in 1..Len(items) |-> IF out[i].raised THEN None ELSE out[i].value],
                        LAMBDA v : v # None))),
         trace |-> items]

\* super(LimitedSizeList, self).run_validation(data)
ManyRelatedField_run_validation(cls, value, ctx, db) ==
    IF value = empty
    THEN [outcome |-> Raise(ValidationError("This field is required.")), trace |-> <<>>]
    ELSE IF value = None
    THEN [outcome |-> Raise(ValidationError("This field may not be null.")), trace |-> <<>>]
    ELSE IF value.type # "list"
    THEN [outcome |-> Raise(ValidationError("Expected a list of items.")), trace |-> <<>>]
    ELSE many_related_items(cls, value.items, ctx, db)

LimitedSizeList_run_validation_late_guard(cls, value, ctx, db) ==
    LET r == ManyRelatedField_run_validation(cls, value, ctx, db)
        size == validate_list_size(value)
    IN  IF r.outcome.raised THEN r
        ELSE IF size.raised THEN [outcome |-> size, trace |-> r.trace]
        ELSE r

LimitedSizeList_run_validation_skipping(cls, value, ctx, db) ==
    LET size == validate_list_size(value)
    IN  IF size.raised THEN [outcome |-> size, trace |-> <<>>]
        ELSE IF value.type # "list" THEN ManyRelatedField_run_validation(cls, value, ctx, db)
        ELSE many_related_items_skipping(cls, value.items, ctx, db)

LimitedSizeList_run_validation(cls, value, ctx, db) ==
    LET size == validate_list_size(value)
    IN  IF size.raised THEN [outcome |-> size, trace |-> <<>>]
        ELSE ManyRelatedField_run_validation(cls, value, ctx, db)

\* ManyRelatedField.to_representation, which LimitedSizeList inherits unchanged
ManyRelatedField_to_representation(objs) ==
    Return(PyList([i \in 1..Len(objs) |-> TembaModelField_to_representation(objs[i])]))

LimitedSizeList_to_representation_guarded(value) ==
    LET size == validate_list_size(value)
    IN  IF size.raised THEN size ELSE ManyRelatedField_to_representation(value.items)

LimitedSizeList_to_representation(value) == ManyRelatedField_to_representation(value.items)

----------------------------------------------------------------------------
(* Lines 33-40, 56-57: LimitedListField, URNListField (child = URNField()). *)
(* super().to_internal_value is rest_framework's ListField: it rejects a    *)
(* non-list and runs the child over the items in order.                     *)

\* [self.child.run_validation(item) for item in data]
list_field_items(lib, items) ==
    LET out == [i \in 1..Len(items) |-> URNField_to_internal_value(lib, items[i])]
        raising == {i \in 1..Len(items) : out[i].raised}
        stop == CHOOSE i \in raising : \A j \in raising : i <= j
    IN  IF raising = {}
        THEN [outcome |-> Return(PyList([i \in 1..Len(items) |-> out[i].value])),
              trace |-> items]
        ELSE [outcome |-> out[stop], trace |-> SubSeq(items, 1, stop)]

\* super(LimitedListField, self).to_internal_value(data)
ListField_to_internal_value(lib, value) ==
    IF value.type # "list"
    THEN [outcome |-> Raise(ValidationError("Expected a list of items.")), trace |-> <<>>]
    ELSE list_field_items(lib, value.items)

LimitedListField_to_internal_value(lib, value) ==
    LET size == validate_list_size(value)
    IN  IF size.raised THEN [outcome |-> size, trace |-> <<>>]
        ELSE ListField_to_internal_value(lib, value)

\* ListField.to_representation, which LimitedListField inherits unchanged
ListField_to_representation(items, ctx) ==
    Return(PyList([i \in 1..Len(items) |->
        IF items[i] = None THEN None ELSE URNField_to_representation(items[i], ctx).value]))

LimitedListField_to_representation(value, ctx) == ListField_to_representation(value.items, ctx)

----------------------------------------------------------------------------
(* Inputs: request contexts, database contents, posted values *)

Orgs == {"org1", "org2"}
Tokens == {"u1", "u2"}

Contexts == {[org |-> [id |-> o, is_anon |-> a]] : o \in Orgs, a \in BOOLEAN}

Unset == [type |-> "unset"]     \* the direction (inbound / outbound) not exercised

\* managers of a model other than the default one
ManagerSets(m) ==
    CASE m = "ContactGroup" -> {{"objects", "user_groups"}, {"objects"}}
      [] m = "Label" -> {{"objects", "label_objects"}, {"objects"}}
      [] OTHER -> {{"objects"}}

\* column values of a row of model m (primary key and display name aside)
Columns(m) ==
    CASE m = "CampaignEvent" ->
            [model : {m}, uuid : Tokens, is_active : BOOLEAN, managers : ManagerSets(m),
             campaign : [org : Orgs, is_active : BOOLEAN]]
      [] m = "ContactFieldModel" ->
            [model : {m}, uuid : Tokens, key : Tokens, org : Orgs, is_active : BOOLEAN,
             managers : ManagerSets(m)]
      [] OTHER ->
            [model : {m}, uuid : Tokens, org : Orgs, is_active : BOOLEAN,
             managers : ManagerSets(m)]

\* rows a list request is checked against: every manager holds every row,
\* parent campaigns are active, and rows of the other org are active
ListColumns(m) ==
    {c \in Columns(m) :
        /\ c.managers = UNION ManagerSets(m)
        /\ (m = "CampaignEvent" => c.campaign.is_active)
        /\ (c.is_active \/ (IF m = "CampaignEvent" THEN c.campaign.org ELSE c.org) = "org1")}

Row(c, pk) ==
    IF c.model = "ContactFieldModel"
    THEN c @@ [pk |-> pk, label |-> "Label " \o FormatInt(pk)]
    ELSE c @@ [pk |-> pk, name |-> "Name " \o FormatInt(pk)]

\* databases of up to MaxRecords rows with the given column values
Storages(columns) ==
    UNION {{[pk \in 1..n |-> Row(c[pk], pk)] : c \in [1..n -> columns]} : n \in 0..MaxRecords}

ShortLists(T) == UNION {[1..n -> T] : n \in 0..MaxShortLen}

LongLens == (MAX_LIST_SIZE - 1)..(MAX_LIST_SIZE + MaxOver)

\* long lists: all items t, but for one item s at either end
LongLists(T) ==
    UNION {{[i \in 1..n |-> IF i = k THEN s ELSE t] : t \in T, s \in T, k \in {1, n}} :
              n \in LongLens}

RECURSIVE Repeat(_, _)
Repeat(ch, n) == IF n = 0 THEN "" ELSE ch \o Repeat(ch, n - 1)

\* posted values that are not lists
Scalars == {None, empty, PyInt(5), PyStr("u1")} \cup {PyStr(Repeat("x", n)) : n \in LongLens}

PostedLists(T) == {PyList(l) : l \in ShortLists(T) \cup LongLists(T)}

RenderLens == (0..MaxShortLen) \cup LongLens

\* lists of objects to render: the elements of pool, cycled from offset k
ObjectLists(pool) ==
    {PyList([i \in 1..n |-> pool[((i + k) % Len(pool)) + 1]]) :
        n \in RenderLens, k \in 1..Len(pool)}

(* URN.normalize and URN.validate live in temba.contacts.models *)
Raws == {"+12065551212", "5551212", "tel:+12065551212", "bogus"}
URNs == {"tel:+12065551212", "tel:5551212"}

UrnLibs == [normalize : [Raws -> URNs \cup {ValueError}], validate : [URNs -> BOOLEAN]]

\* the behaviour on the documented examples
DefaultUrnLib ==
    [normalize |-> [r \in Raws |-> CASE r \in {"+12065551212", "tel:+12065551212"}
                                          -> "tel:+12065551212"
                                     [] r = "5551212" -> "tel:5551212"
                                     [] OTHER -> ValueError],
     validate |-> [u \in URNs |-> u = "tel:+12065551212"]]

UrnObjects == {PyStr(u) : u \in URNs} \cup {PyObject(u) : u \in URNs}

----------------------------------------------------------------------------
(* Initial states *)

Idle ==
    /\ op = "idle"
    /\ strict = TRUE
    /\ result = Pending
    /\ trace = <<>>

\* a single reference or contact field key, posted or rendered
InitResolve ==
    /\ Idle
    /\ many = FALSE
    /\ urnlib = DefaultUrnLib
    /\ context \in Contexts
    /\ field \in FieldClasses \cup {"ContactFieldField"}
    /\ storage \in Storages(Columns(IF field = "ContactFieldField"
                                    THEN "ContactFieldModel" ELSE model(field)))
    /\ \/ data \in {PyStr(t) : t \in Tokens} /\ obj = Unset
       \/ data = Unset /\ obj \in Rows(storage)

\* the classes lists are exercised with: one per way of building the queryset
\* (default manager, override through the parent campaign, named manager)
ListFieldClasses == {"CampaignField", "CampaignEventField", "ContactGroupField"}

\* a list of references or of URNs, posted or rendered
InitList ==
    /\ Idle
    /\ urnlib = DefaultUrnLib
    /\ \/ /\ field \in ListFieldClasses
          /\ many = TRUE
          /\ context \in {c \in Contexts : c.org.id = "org1" /\ ~c.org.is_anon}
          /\ storage \in Storages(ListColumns(model(field)))
          /\ \/ data \in PostedLists(Tokens) \cup Scalars /\ obj = Unset
             \/ data = Unset /\ storage # <<>> /\ obj \in ObjectLists(storage)
       \/ /\ field = "URNListField"
          /\ many = FALSE
          /\ context \in Contexts
          /\ storage = <<>>
          /\ \/ data \in PostedLists(Raws) \cup Scalars /\ obj = Unset
             \/ data = Unset
                /\ obj \in ObjectLists(<<PyStr("tel:+12065551212"), PyStr("tel:5551212"), None>>)

\* a single URN, posted or rendered
InitURN ==
    /\ Idle
    /\ many = FALSE
    /\ field = "URNField"
    /\ storage = <<>>
    /\ context \in Contexts
    /\ urnlib \in UrnLibs
    /\ \/ data \in {PyStr(r) : r \in Raws} /\ obj = Unset
       \/ data = Unset /\ obj \in UrnObjects

Init == InitResolve \/ InitList \/ InitURN

----------------------------------------------------------------------------
(* Operations *)

Finish(name, outcome, items) ==
    /\ op' = name
    /\ result' = outcome
    /\ trace' = items
    /\ UNCHANGED <<context, storage, urnlib, field, many, data, obj>>

\* validate_list_size(value)
ValidateListSize ==
    /\ op = "idle" /\ data # Unset
    /\ Finish("validate_list_size", validate_list_size(data), <<>>)
    /\ UNCHANGED strict

\* validate_urn(value, strict)
ValidateUrn ==
    /\ op = "idle" /\ data # Unset /\ field = "URNField"
    /\ \E s \in BOOLEAN :
          /\ strict' = s
          /\ Finish("validate_urn", validate_urn(urnlib, data.s, s), <<data.s>>)

\* URNField.to_internal_value(data)
URNFieldToInternalValue ==
    /\ op = "idle" /\ data # Unset /\ field = "URNField"
    /\ Finish("to_internal_value", URNField_to_internal_value(urnlib, data.s), <<data.s>>)
    /\ UNCHANGED strict

\* URNField.to_representation(obj)
URNFieldToRepresentation ==
    /\ op = "idle" /\ obj # Unset /\ field = "URNField"
    /\ Finish("to_representation", URNField_to_representation(obj, context), <<>>)
    /\ UNCHANGED strict

\* URNListField.to_internal_value(data)
URNListFieldToInternalValue ==
    /\ op = "idle" /\ data # Unset /\ field = "URNListField"
    /\ LET r == LimitedListField_to_internal_value(urnlib, data)
       IN  Finish("to_internal_value", r.outcome, r.trace)
    /\ UNCHANGED strict

\* URNListField.to_representation(obj)
URNListFieldToRepresentation ==
    /\ op = "idle" /\ obj # Unset /\ field = "URNListField"
    /\ Finish("to_representation", LimitedListField_to_representation(obj, context), <<>>)
    /\ UNCHANGED strict

\* <TembaModelField subclass>.to_internal_value(data)
TembaModelFieldToInternalValue ==
    /\ op = "idle" /\ data # Unset /\ field \in FieldClasses /\ ~many
    /\ Finish("to_internal_value",
              TembaModelField_to_internal_value(field, data.s, context, storage), <<data.s>>)
    /\ UNCHANGED strict

\* <TembaModelField subclass>.to_representation(obj)
TembaModelFieldToRepresentation ==
    /\ op = "idle" /\ obj # Unset /\ field \in FieldClasses /\ ~many
    /\ Finish("to_representation", Return(TembaModelField_to_representation(obj)), <<>>)
    /\ UNCHANGED strict

\* <TembaModelField subclass>(many=True).run_validation(data)
LimitedSizeListRunValidation ==
    /\ op = "idle" /\ data # Unset /\ field \in FieldClasses /\ many
    /\ LET r == LimitedSizeList_run_validation(field, data, context, storage)
       IN  Finish("run_validation", r.outcome, r.trace)
    /\ UNCHANGED strict

\* <TembaModelField subclass>(many=True).to_representation(objs)
LimitedSizeListToRepresentation ==
    /\ op = "idle" /\ obj # Unset /\ field \in FieldClasses /\ many
    /\ Finish("to_representation", LimitedSizeList_to_representation(obj), <<>>)
    /\ UNCHANGED strict

\* ContactFieldField.to_internal_value(data)
ContactFieldFieldToInternalValue ==
    /\ op = "idle" /\ data # Unset /\ field = "ContactFieldField"
    /\ Finish("to_internal_value",
              ContactFieldField_to_internal_value(data.s, context, storage), <<data.s>>)
    /\ UNCHANGED strict

\* ContactFieldField.to_representation(obj)
ContactFieldFieldToRepresentation ==
    /\ op = "idle" /\ obj # Unset /\ field = "ContactFieldField"
    /\ Finish("to_representation", Return(ContactFieldField_to_representation(obj)), <<>>)
    /\ UNCHANGED strict

NextResolve ==
    \/ TembaModelFieldToInternalValue
    \/ TembaModelFieldToRepresentation
    \/ ContactFieldFieldToInternalValue
    \/ ContactFieldFieldToRepresentation

NextList ==
    \/ ValidateListSize
    \/ LimitedSizeListRunValidation
    \/ LimitedSizeListToRepresentation
    \/ URNListFieldToInternalValue
    \/ URNListFieldToRepresentation

NextURN ==
    \/ ValidateUrn
    \/ URNFieldToInternalValue
    \/ URNFieldToRepresentation

Next == NextResolve \/ NextList \/ NextURN

SpecResolve == InitResolve /\ [][NextResolve]_vars
SpecList == InitList /\ [][NextList]_vars
SpecURN == InitURN /\ [][NextURN]_vars
Spec == Init /\ [][Next]_vars

----------------------------------------------------------------------------
(* Properties.  They are stated on the database content, not through the   *)
(* field operators above.                                                  *)

\* the org a row belongs to: a campaign event belongs to its campaign's org
Owner(r) == IF r.model = "CampaignEvent" THEN r.campaign.org ELSE r.org

\* active rows of the field's model, owned by the current org, with this uuid
Live(token) ==
    {r \in Rows(storage) :
        /\ r.model = model(field)
        /\ r.uuid = token
        /\ Owner(r) = context.org.id
        /\ r.is_active}

\* the same, within the collection of the field's manager
Reachable(token) == {r \in Live(token) : model_manager(field) \in r.managers}

NoSuchObjectError(token) ==
    [raised |-> TRUE,
     error |-> [exception |-> "ValidationError",
                detail |-> "No such object with UUID: " \o token]]

ListTooLargeError ==
    [raised |-> TRUE,
     error |-> [exception |-> "ValidationError",
                detail |-> "Exceeds maximum list size of 100"]]

ResolvedOne == op = "to_internal_value" /\ field \in FieldClasses /\ ~many

(* C1: resolving a UUID returns only an active row of the current org with *)
(* that uuid; when there is no such row (unknown uuid, other org's row,    *)
(* inactive row) it fails with "No such object with UUID: <token>".        *)
C1_ResolveOwnActiveOnly ==
    ResolvedOne =>
        /\ ~result.raised => result.value \in Live(data.s)
        /\ result.raised => result = NoSuchObjectError(data.s)
        /\ Live(data.s) = {} => result.raised

C1_Witness ==
    /\ ResolvedOne
    /\ field # "CampaignEventField"
    /\ result.raised
    /\ \E r \in Rows(storage) : r.uuid = data.s /\ r.is_active /\ r.org # context.org.id
    /\ \E r \in Rows(storage) : r.uuid = data.s /\ ~r.is_active /\ r.org = context.org.id

(* C8: a campaign event resolves only if it is active itself and its       *)
(* parent campaign belongs to the current org; every other type is scoped  *)
(* by the row's own org within the collection of its configured manager.   *)
C8_EventScopedThroughCampaign ==
    ResolvedOne =>
        IF field = "CampaignEventField"
        THEN LET hits == {r \in Rows(storage) :
                             /\ r.model = "CampaignEvent"
                             /\ r.uuid = data.s
                             /\ r.is_active
                             /\ r.campaign.org = context.org.id}
             IN  /\ ~result.raised => result.value \in hits
                 /\ result.raised <=> hits = {}
                 /\ result.raised => result = NoSuchObjectError(data.s)
        ELSE LET accessor == CASE field = "ContactGroupField" -> "user_groups"
                               [] field = "LabelField" -> "label_objects"
                               [] OTHER -> "objects"
                 hits == {r \in Rows(storage) :
                             /\ r.model = model(field)
                             /\ r.uuid = data.s
                             /\ r.is_active
                             /\ r.org = context.org.id
                             /\ accessor \in r.managers}
             IN  /\ ~result.raised => result.value \in hits
                 /\ result.raised <=> hits = {}

C8_Witness ==
    /\ ResolvedOne
    /\ field = "CampaignEventField"
    /\ result = NoSuchObjectError(data.s)
    /\ \E r \in Rows(storage) :
          r.uuid = data.s /\ r.is_active /\ r.campaign.is_active
          /\ r.campaign.org # context.org.id

(* C7: a contact field resolves by exact key among the active fields of    *)
(* the current org, never by uuid; otherwise "No such contact field with   *)
(* key: <key>"; a field renders as {key, label}.                           *)
C7_KeyedLookup ==
    /\ (op = "to_internal_value" /\ field = "ContactFieldField") =>
          LET hits == {r \in Rows(storage) :
                          /\ r.model = "ContactFieldModel"
                          /\ r.key = data.s
                          /\ r.org = context.org.id
                          /\ r.is_active}
          IN  /\ ~result.raised => result.value \in hits
              /\ result.raised <=> hits = {}
              /\ result.raised =>
                    result = [raised |-> TRUE,
                              error |-> [exception |-> "ValidationError",
                                         detail |-> "No such contact field with key: "
                                                        \o data.s]]
    /\ (op = "to_representation" /\ field = "ContactFieldField") =>
          result = [raised |-> FALSE, value |-> [key |-> obj.key, label |-> obj.label]]

C7_Witness ==
    /\ op = "to_internal_value" /\ field = "ContactFieldField"
    /\ result.raised
    /\ \E r \in Rows(storage) :
          r.uuid = data.s /\ r.key # data.s /\ r.is_active /\ r.org = context.org.id

----------------------------------------------------------------------------
(* URN properties *)

InvalidURNError(raw) ==
    [raised |-> TRUE,
     error |-> [exception |-> "ValidationError",
                detail |-> "Invalid URN: " \o raw
                               \o ". Ensure phone numbers contain country codes."]]

ThreeOutcomes(raw, strict_) ==
    LET n == urnlib.normalize[raw]
    IN  CASE n = "ValueError" -> InvalidURNError(raw)
          [] n # "ValueError" /\ strict_ /\ ~urnlib.validate[n] -> InvalidURNError(raw)
          [] OTHER -> [raised |-> FALSE, value |-> [type |-> "str", s |-> n]]

(* C5: validate_urn fails with "Invalid URN: <raw>..." when normalize      *)
(* fails, fails with the same error on the raw value when strict and the   *)
(* normalized URN does not validate, and otherwise returns the normalized  *)
(* URN; URNField.to_internal_value is the strict case.                     *)
C5_ValidateUrnOutcomes ==
    /\ op = "validate_urn" => result = ThreeOutcomes(data.s, strict)
    /\ (op = "to_internal_value" /\ field = "URNField") =>
          result = ThreeOutcomes(data.s, TRUE)

C5_Witness ==
    /\ op = "validate_urn"
    /\ strict
    /\ urnlib.normalize[data.s] \in URNs
    /\ urnlib.normalize[data.s] # data.s
    /\ ~urnlib.validate[urnlib.normalize[data.s]]
    /\ result = InvalidURNError(data.s)

StringForm(u) == IF u.type = "str" THEN u ELSE [type |-> "str", s |-> u.unicode]

(* C6: under an anonymous org every URN renders as None, so any two URNs   *)
(* render alike; otherwise a URN renders as its string form.               *)
C6_AnonOrgHidesUrn ==
    /\ (op = "to_representation" /\ field = "URNField") =>
          result = [raised |-> FALSE,
                    value |-> IF context.org.is_anon THEN [type |-> "NoneType"]
                              ELSE StringForm(obj)]
    /\ (field = "URNField" /\ context.org.is_anon) =>
          \A u1, u2 \in UrnObjects :
              URNField_to_representation(u1, context) = URNField_to_representation(u2, context)

C6_Witness ==
    /\ op = "to_representation" /\ field = "URNField"
    /\ context.org.is_anon
    /\ obj.type = "str"
    /\ result = [raised |-> FALSE, value |-> [type |-> "NoneType"]]

----------------------------------------------------------------------------
(* List properties *)

IsList(v) == v.type = "list"

HasLength(v) == v.type = "list" \/ v.type = "str"

LengthOf(v) == IF v.type = "list" THEN Len(v.items) ELSE Len(v.s)

PostedList ==
    \/ op = "run_validation" /\ field \in FieldClasses /\ many
    \/ op = "to_internal_value" /\ field = "URNListField"

ShortReferenceList ==
    /\ op = "run_validation" /\ field \in FieldClasses /\ many
    /\ IsList(data) /\ Len(data.items) < 100

\* positions of the posted items that do not resolve
Failing == {i \in 1..Len(data.items) : Reachable(data.items[i]) = {}}

Lowest(S) == CHOOSE i \in S : \A j \in S : i <= j

(* C4: a posted reference list of fewer than 100 items yields the resolved *)
(* rows, one per item and in the order posted, or fails as a whole with    *)
(* the "No such object" error of the leftmost item that does not resolve.  *)
C4_AllOrLeftmostFailure ==
    ShortReferenceList =>
        IF Failing = {}
        THEN /\ ~result.raised
             /\ result.value.type = "list"
             /\ Len(result.value.items) = Len(data.items)
             /\ \A i \in 1..Len(data.items) :
                   /\ result.value.items[i] \in Reachable(data.items[i])
                   /\ \A r \in Reachable(data.items[i]) : result.value.items[i].pk <= r.pk
        ELSE result = NoSuchObjectError(data.items[Lowest(Failing)])

C4_Witness ==
    /\ ShortReferenceList
    /\ Len(data.items) = 2
    /\ Failing = {2}
    /\ result = NoSuchObjectError(data.items[2])

\* evaluation orders of n items: all of them for short lists, else forward and backward
Orders(n) ==
    IF n <= MaxShortLen
    THEN {f \in [1..n -> 1..n] : \A i, j \in 1..n : f[i] = f[j] => i = j}
    ELSE {[i \in 1..n |-> i], [i \in 1..n |-> n + 1 - i]}

\* the outcome of resolving the posted items in the given order, raising at
\* the first item that does not resolve
ResolveInOrder(order) ==
    LET items == data.items
        out == [i \in 1..Len(items) |->
                   TembaModelField_to_internal_value(field, items[i], context, storage)]
        raising == {k \in 1..Len(items) : out[order[k]].raised}
    IN  IF raising = {}
        THEN Return(PyList([i \in 1..Len(items) |-> out[i].value]))
        ELSE out[order[Lowest(raising)]]

(* C9 as stated: resolving the items of a posted reference list in any     *)
(* order gives the outcome of resolving them left to right, the reported   *)
(* error included.                                                         *)
C9_AnyOrderSameOutcome ==
    ShortReferenceList =>
        \A order \in Orders(Len(data.items)) : ResolveInOrder(order) = result

(* C9 amended: in any order the list fails or succeeds alike, a success    *)
(* gives the same rows in posted order, and a failure gives the same error *)
(* whenever all the items that do not resolve carry one and the same       *)
(* token; otherwise the error names the first such item in the order used. *)
C9_AnyOrderSameUpToErrorChoice ==
    ShortReferenceList =>
        IF Failing = {}
        THEN /\ ~result.raised
             /\ \A order \in Orders(Len(data.items)) : ResolveInOrder(order) = result
        ELSE /\ result.raised
             /\ \A order \in Orders(Len(data.items)) :
                   ResolveInOrder(order) =
                       NoSuchObjectError(data.items[order[
                           Lowest({k \in 1..Len(data.items) :
                                      Reachable(data.items[order[k]]) = {}})]])
             /\ Cardinality({data.items[i] : i \in Failing}) <= 1 =>
                   \A order \in Orders(Len(data.items)) : ResolveInOrder(order) = result

C9_Witness ==
    /\ ShortReferenceList
    /\ Cardinality({data.items[i] : i \in Failing}) = 2
    /\ \E order \in Orders(Len(data.items)) : ResolveInOrder(order) # result

Rendered ==
    op = "to_representation" /\ (field = "URNListField" \/ (field \in FieldClasses /\ many))

(* C10: rendering a list never applies the size limit: whatever its length *)
(* it yields one element per object, in order; a reference renders as its  *)
(* {uuid, name} whatever its org and whether it is active or not.          *)
C10_RenderUnbounded ==
    Rendered =>
        /\ ~result.raised
        /\ result.value.type = "list"
        /\ Len(result.value.items) = Len(obj.items)
        /\ \A i \in 1..Len(obj.items) :
              result.value.items[i] =
                  IF field = "URNListField"
                  THEN IF context.org.is_anon THEN [type |-> "NoneType"] ELSE obj.items[i]
                  ELSE [uuid |-> obj.items[i].uuid, name |-> obj.items[i].name]

C10_Witness ==
    /\ Rendered
    /\ field = "CampaignField"
    /\ Len(obj.items) >= 100
    /\ \E i \in 1..Len(obj.items) : obj.items[i].org # context.org.id
    /\ \E i \in 1..Len(obj.items) : ~obj.items[i].is_active
    /\ Len(result.value.items) = Len(obj.items)

====
